---- MODULE Spec2Model ----
(***************************************************************************)
(* Model of core/static/core/js/create_trip_form.js: two document-ready    *)
(* blocks that bind the city selects #start_point / #end_point to the      *)
(* station selects #departure_station / #arrival_station.                  *)
(*                                                                         *)
(* Strings are sequences of tokens.  A token is either one character       *)
(* ("5", " ", "A") or one of the three pieces of option markup that the    *)
(* script concatenates around a result entry.                              *)
(***************************************************************************)
EXTENDS Naturals, Sequences, FiniteSets

VARIABLES
    pc,         \* line of the next load-time statement, or "run"
    city,       \* city select id -> its current value
    disabled,   \* station select id -> its "disabled" property
    options,    \* station select id -> its <option> list (value, label)
    inflight,   \* station select id -> (city id -> GET requests in flight)
    lastDone,   \* station select id -> the fetch whose callback ran last
    lastEvent,  \* the handler or callback that ran last and what it sent
    raced,      \* station select id -> the last change went from one city id to
                \* another while the requests for the first, and no others,
                \* were in flight
    changes     \* change events delivered so far

vars == <<pc, city, disabled, options, inflight, lastDone, lastEvent, raced, changes>>

(***************************** bounds **************************************)
MaxChanges == 2

(***************************** the page ************************************)
CityFields == {"start_point", "end_point"}
StationFields == {"departure_station", "arrival_station"}

\* A copy-paste slip: both handlers aim at the departure select.
StationOfBothDeparture(f) == "departure_station"

\* The station select every handler of city select f is bound to.
StationOf(f) == IF f = "start_point" THEN "departure_station" ELSE "arrival_station"

\* The city select whose handlers write station select s.
CityOf(s) == IF s = "departure_station" THEN "start_point" ELSE "end_point"

\* Values a city select can hold: none, a blank one, two city ids.
CityVals == { <<>>, <<" ">>, <<"5">>, <<"7">> }

\* Values a city select can be rendered with: none, or a city id.
PreselectedVals == { <<>>, <<"5">> }

None == [none |-> TRUE]

(***************************** strings *************************************)
OPEN == "<option value=\""
GT == "\">"
CLOSE == "</option>"

\* JavaScript truthiness of a string: only the empty string is falsy.
Truthy(v) == v # <<>>

RECURSIVE TrimLeft(_)
TrimLeft(v) == IF v # <<>> /\ Head(v) = " " THEN TrimLeft(Tail(v)) ELSE v

RECURSIVE TrimRight(_)
TrimRight(v) ==
    IF v # <<>> /\ v[Len(v)] = " " THEN TrimRight(SubSeq(v, 1, Len(v) - 1)) ELSE v

\* $.trim: strip the leading and the trailing whitespace.
Trim(v) == TrimRight(TrimLeft(v))

\* '<option value="' + item.id + '">' + item.text + '</option>'
OptionMarkup(item) == <<OPEN>> \o item.id \o <<GT>> \o item.text \o <<CLOSE>>

\* The <option> elements an HTML fragment parses to.  mode "out": between
\* options; "value": inside the quoted value attribute; "text": inside the
\* option's text.  An option start tag inside an option closes the open one.
RECURSIVE ParseFrom(_, _, _, _, _)
ParseFrom(toks, mode, value, label, acc) ==
    IF toks = <<>>
    THEN IF mode = "text" THEN Append(acc, [value |-> value, label |-> label]) ELSE acc
    ELSE LET t == Head(toks)
             rest == Tail(toks)
         IN CASE mode = "out" /\ t = OPEN -> ParseFrom(rest, "value", <<>>, <<>>, acc)
              [] mode = "out" /\ t # OPEN -> ParseFrom(rest, "out", <<>>, <<>>, acc)
              [] mode = "value" /\ t = GT -> ParseFrom(rest, "text", value, <<>>, acc)
              [] mode = "value" /\ t # GT ->
                    ParseFrom(rest, "value", Append(value, t), <<>>, acc)
              [] mode = "text" /\ t = CLOSE ->
                    ParseFrom(rest, "out", <<>>, <<>>,
                              Append(acc, [value |-> value, label |-> label]))
              [] mode = "text" /\ t = OPEN ->
                    ParseFrom(rest, "value", <<>>, <<>>,
                              Append(acc, [value |-> value, label |-> label]))
              [] OTHER -> ParseFrom(rest, "text", value, Append(label, t), acc)

ParseOptions(toks) == ParseFrom(toks, "out", <<>>, <<>>, <<>>)

\* stationSelect.append(html): the parsed elements go after the present ones.
AppendHtml(sel, html) == sel \o ParseOptions(html)

\* $.each(data.results, ...): one append per entry, in the list's order.
RECURSIVE AppendEach(_, _)
AppendEach(sel, results) ==
    IF results = <<>> THEN sel
    ELSE AppendEach(AppendHtml(sel, OptionMarkup(Head(results))), Tail(results))

\* stationSelect.empty()
Empty(sel) == <<>>

\* A callback that forgets stationSelect.empty().
RepopulateKeepingOld(sel, results) == AppendEach(sel, results)

\* The success callback of $.get: empty the select, then append the results.
Repopulate(sel, results) == AppendEach(Empty(sel), results)

(***************************** the server **********************************)
Item(id, text) == [id |-> id, text |-> text]

\* "results" lists the endpoint may answer with: an empty one, one that is
\* out of id order and repeats an entry, and one whose text carries option
\* markup.
ResultLists ==
    { <<>>,
      << Item(<<"2">>, <<"B">>), Item(<<"1">>, <<"A">>), Item(<<"2">>, <<"B">>) >>,
      << Item(<<"1">>, <<"A", CLOSE, OPEN, "9", GT, "B">>) >> }

\* The option list the page renders a station select with: the placeholder.
RenderedOptions == { << [value |-> <<>>, label |-> <<"-">>] >> }

(***************************** requests ************************************)
NoRequests == [c \in CityVals |-> 0]

\* $.get(url, callback) with url = '/ajax/get_stations/?city_id=' + cityId
Get(reqs, cityId) == [reqs EXCEPT ![cityId] = @ + 1]

\* updateStations(cityId, stationSelect): the request's callback is bound to
\* stationSelect.
updateStations(reqs, cityId, stationSelect) ==
    [reqs EXCEPT ![stationSelect] = Get(@, cityId)]

Total(reqs) == reqs[<<>>] + reqs[<<" ">>] + reqs[<<"5">>] + reqs[<<"7">>]

\* Requests in flight whose callback is bound to station select s.
InFlight(s) == Total(inflight[s])

Event(kind, s, sent) == [kind |-> kind, station |-> s, sent |-> sent]

(***************************** load time ***********************************)
\* The load-time statements of the two ready blocks, in source order, each
\* named by its line; "run" once both blocks have returned.
LoadSteps ==
    << <<"L34", "disable", "start_point">>, <<"L35", "disable", "end_point">>,
       <<"L76", "fetch", "start_point">>, <<"L80", "fetch", "end_point">>,
       <<"L91", "blank", "start_point">>, <<"L95", "blank", "end_point">> >>

StepAt == CHOOSE i \in 1..Len(LoadSteps) : LoadSteps[i][1] = pc

Advance == IF StepAt = Len(LoadSteps) THEN "run" ELSE LoadSteps[StepAt + 1][1]

AtLoad(stmt, f) == \E i \in 1..Len(LoadSteps) : LoadSteps[i] = <<pc, stmt, f>>

Init ==
    /\ pc = "L34"
    /\ city \in [CityFields -> PreselectedVals]
    /\ disabled \in [StationFields -> BOOLEAN]
    /\ options \in [StationFields -> RenderedOptions]
    /\ inflight = [s \in StationFields |-> NoRequests]
    /\ lastDone = [s \in StationFields |-> None]
    /\ lastEvent = Event("none", "departure_station", 0)
    /\ raced = [s \in StationFields |-> FALSE]
    /\ changes = 0

\* First block: targetField.prop("disabled", true)
DisableOnLoad(f) ==
    /\ AtLoad("disable", f)
    /\ disabled' = [disabled EXCEPT ![StationOf(f)] = TRUE]
    /\ lastEvent' = Event("load", StationOf(f), 0)
    /\ pc' = Advance
    /\ UNCHANGED <<city, options, inflight, lastDone, raced, changes>>

\* Second block: if (cityId) { updateStations(cityId, station); }
FetchOnLoad(f) ==
    /\ AtLoad("fetch", f)
    /\ inflight' = IF Truthy(city[f])
                   THEN updateStations(inflight, city[f], StationOf(f))
                   ELSE inflight
    /\ lastEvent' = Event("load", StationOf(f),
                          Total(inflight'[StationOf(f)]) - InFlight(StationOf(f)))
    /\ pc' = Advance
    /\ UNCHANGED <<city, disabled, options, lastDone, raced, changes>>

\* Second block: if ($.trim(point.val()) === "") { target.prop("disabled", true); }
DisableIfBlank(f) ==
    /\ AtLoad("blank", f)
    /\ disabled' = IF Trim(city[f]) = <<>>
                   THEN [disabled EXCEPT ![StationOf(f)] = TRUE]
                   ELSE disabled
    /\ lastEvent' = Event("load", StationOf(f), 0)
    /\ pc' = Advance
    /\ UNCHANGED <<city, options, inflight, lastDone, raced, changes>>

(***************************** events **************************************)
\* A change handler that also empties the station select it disables.
ChangeEmptyingOnBlank(f, v) ==
    /\ pc = "run"
    /\ changes < MaxChanges
    /\ v # city[f]
    /\ changes' = changes + 1
    /\ city' = [city EXCEPT ![f] = v]
    /\ inflight' = updateStations([inflight EXCEPT ![StationOf(f)] = Get(@, v)],
                                  v, StationOf(f))
    /\ disabled' = [disabled EXCEPT ![StationOf(f)] = ~Truthy(v)]
    /\ lastEvent' = Event("change", StationOf(f),
                          Total(inflight'[StationOf(f)]) - InFlight(StationOf(f)))
    /\ raced' = [raced EXCEPT ![StationOf(f)] =
                    /\ Trim(city[f]) # <<>>
                    /\ Trim(v) # <<>>
                    /\ inflight[StationOf(f)][city[f]] >= 2
                    /\ InFlight(StationOf(f)) = inflight[StationOf(f)][city[f]]]
    /\ options' = IF Truthy(v) THEN options
                  ELSE [options EXCEPT ![StationOf(f)] = Empty(@)]
    /\ UNCHANGED <<pc, lastDone>>

\* A change event on city select f: the user has committed another value, v.
\* The four handlers registered on f run in registration order: the first
\* block's $.get, the first block's prop("disabled", !val), the second
\* block's updateStations, the second block's prop("disabled", !val).
Change(f, v) ==
    /\ pc = "run"
    /\ changes < MaxChanges
    /\ v # city[f]
    /\ changes' = changes + 1
    /\ city' = [city EXCEPT ![f] = v]
    /\ inflight' = updateStations([inflight EXCEPT ![StationOf(f)] = Get(@, v)],
                                  v, StationOf(f))
    /\ disabled' = [disabled EXCEPT ![StationOf(f)] = ~Truthy(v)]
    /\ lastEvent' = Event("change", StationOf(f),
                          Total(inflight'[StationOf(f)]) - InFlight(StationOf(f)))
    /\ raced' = [raced EXCEPT ![StationOf(f)] =
                    /\ Trim(city[f]) # <<>>
                    /\ Trim(v) # <<>>
                    /\ inflight[StationOf(f)][city[f]] >= 2
                    /\ InFlight(StationOf(f)) = inflight[StationOf(f)][city[f]]]
    /\ UNCHANGED <<pc, options, lastDone>>

\* A success callback that also enables the select it fills.
FetchDoneEnabling(s, c, results) ==
    /\ pc = "run"
    /\ inflight[s][c] > 0
    /\ inflight' = [inflight EXCEPT ![s][c] = @ - 1]
    /\ options' = [options EXCEPT ![s] = Repopulate(@, results)]
    /\ disabled' = [disabled EXCEPT ![s] = FALSE]
    /\ lastDone' = [lastDone EXCEPT ![s] = [cityId |-> c, results |-> results]]
    /\ lastEvent' = Event("done", s, 0)
    /\ UNCHANGED <<pc, city, raced, changes>>

\* A GET for city id c, issued for station select s, succeeds with results.
FetchDone(s, c, results) ==
    /\ pc = "run"
    /\ inflight[s][c] > 0
    /\ inflight' = [inflight EXCEPT ![s][c] = @ - 1]
    /\ options' = [options EXCEPT ![s] = Repopulate(@, results)]
    /\ lastDone' = [lastDone EXCEPT ![s] = [cityId |-> c, results |-> results]]
    /\ lastEvent' = Event("done", s, 0)
    /\ UNCHANGED <<pc, city, disabled, raced, changes>>

\* A failure callback that repopulates from an absent result list.
FetchFailRepopulates(s, c) ==
    /\ pc = "run"
    /\ inflight[s][c] > 0
    /\ inflight' = [inflight EXCEPT ![s][c] = @ - 1]
    /\ options' = [options EXCEPT ![s] = Repopulate(@, <<>>)]
    /\ lastEvent' = Event("fail", s, 0)
    /\ UNCHANGED <<pc, city, disabled, lastDone, raced, changes>>

\* A GET fails: $.get was given a success callback only, so nothing runs.
FetchFail(s, c) ==
    /\ pc = "run"
    /\ inflight[s][c] > 0
    /\ inflight' = [inflight EXCEPT ![s][c] = @ - 1]
    /\ lastEvent' = Event("fail", s, 0)
    /\ UNCHANGED <<pc, city, disabled, options, lastDone, raced, changes>>

Next ==
    \/ \E f \in CityFields : DisableOnLoad(f)
    \/ \E f \in CityFields : FetchOnLoad(f)
    \/ \E f \in CityFields : DisableIfBlank(f)
    \/ \E f \in CityFields, v \in CityVals : Change(f, v)
    \/ \E s \in StationFields, c \in CityVals, r \in ResultLists : FetchDone(s, c, r)
    \/ \E s \in StationFields, c \in CityVals : FetchFail(s, c)

Spec == Init /\ [][Next]_vars

(***************************** a fixed server ******************************)
\* The station list the endpoint answers with for each city id, when it
\* answers every request and the same way each time.
ServerList(c) ==
    CASE c = <<"5">> ->
             << Item(<<"2">>, <<"B">>), Item(<<"1">>, <<"A">>), Item(<<"2">>, <<"B">>) >>
      [] c = <<"7">> -> << Item(<<"1">>, <<"A", CLOSE, OPEN, "9", GT, "B">>) >>
      [] OTHER -> <<>>

\* A GET for city id c succeeds with the endpoint's list for c.
FetchDoneFromServer(s, c) == FetchDone(s, c, ServerList(c))

LiveNext ==
    \/ \E f \in CityFields : DisableOnLoad(f)
    \/ \E f \in CityFields : FetchOnLoad(f)
    \/ \E f \in CityFields : DisableIfBlank(f)
    \/ \E f \in CityFields, v \in CityVals : Change(f, v)
    \/ \E s \in StationFields, c \in CityVals : FetchDoneFromServer(s, c)

\* The ready blocks run to their end and every request is answered; the user
\* may stop changing the selects at any time.
LiveSpec ==
    /\ Init
    /\ [][LiveNext]_vars
    /\ WF_vars(\E f \in CityFields : DisableOnLoad(f) \/ FetchOnLoad(f) \/ DisableIfBlank(f))
    /\ \A s \in StationFields, c \in CityVals : WF_vars(FetchDoneFromServer(s, c))

(***************************** properties **********************************)
\* One option per result entry, in the list's order: value = id, label = text.
OptionsOf(results) ==
    [i \in 1..Len(results) |-> [value |-> results[i].id, label |-> results[i].text]]

MarkupTokens == {OPEN, GT, CLOSE}

\* No id and no text of the list carries a piece of option markup.
Plain(results) ==
    \A i \in 1..Len(results) :
        /\ \A k \in 1..Len(results[i].id) : results[i].id[k] \notin MarkupTokens
        /\ \A k \in 1..Len(results[i].text) : results[i].text[k] \notin MarkupTokens

Loaded == pc = "run"

\* C1: once the ready blocks have run, each station select is enabled if and
\* only if its city select holds a non-empty value.
C1_EnabledIffCityNonEmpty ==
    Loaded => \A f \in CityFields : (~disabled[StationOf(f)]) <=> (city[f] # <<>>)

\* C2: after a change event of a city select has been handled, its station
\* select is enabled if and only if the trimmed city value is not empty.
C2_EnabledIffTrimmedNonEmpty ==
    lastEvent.kind = "change" =>
        LET s == lastEvent.station
        IN (~disabled[s]) <=> (Trim(city[CityOf(s)]) # <<>>)

\* C3: a change event that leaves the city select empty disables the station
\* select and issues no GET request.
C3_EmptyChangeDisablesWithoutFetch ==
    (lastEvent.kind = "change" /\ city[CityOf(lastEvent.station)] = <<>>) =>
        /\ disabled[lastEvent.station]
        /\ lastEvent.sent = 0

\* C4: right after page load, a pair whose city is preselected has one fetch
\* for that city in flight and its station select enabled; a pair whose city
\* is empty has its station select disabled and no fetch in flight.
C4_LoadInitialisesEachPair ==
    (Loaded /\ lastEvent.kind = "load") =>
        \A f \in CityFields :
            LET s == StationOf(f)
            IN IF city[f] # <<>>
               THEN inflight[s][city[f]] = 1 /\ InFlight(s) = 1 /\ ~disabled[s]
               ELSE disabled[s] /\ InFlight(s) = 0

\* C5: right after a successful completion callback the station select's
\* options are exactly the entries of the response, in its order, with
\* value = id and label = text.
C5_OptionsAreExactlyTheResults ==
    lastEvent.kind = "done" =>
        options[lastEvent.station] = OptionsOf(lastDone[lastEvent.station].results)

\* C6: when a city select changes twice before the first change's fetch has
\* completed, the two changes leave two fetches behind them, and once
\* nothing is in flight for the pair the options equal the response whose
\* callback ran last.
C6_LastOfTwoResponsesWins ==
    \A s \in StationFields :
        raced[s] =>
            /\ (lastEvent.kind = "change" /\ lastEvent.station = s) => InFlight(s) = 2
            /\ (InFlight(s) = 0 /\ lastDone[s] # None) =>
                   options[s] = OptionsOf(lastDone[s].results)

C8_FailedFetchLeavesStationAlone ==
    [][lastEvent'.kind = "fail" => (options' = options /\ disabled' = disabled)]_vars

\* C8 witness: both fetches of a change have failed: the station select is
\* enabled for the chosen city and still shows the options it was rendered
\* with.
C8_FailureAfterChangeReached ==
    /\ lastEvent.kind = "fail"
    /\ LET s == lastEvent.station
       IN /\ InFlight(s) = 0
          /\ lastDone[s] = None
          /\ city[CityOf(s)] = <<"7">>
          /\ ~disabled[s]
          /\ options[s] \in RenderedOptions

\* C9: a city-change event issues exactly one GET request, for the value the
\* city select holds at the event.
C9_OneRequestPerChange ==
    lastEvent.kind = "change" =>
        /\ lastEvent.sent = 1
        /\ inflight[lastEvent.station][city[CityOf(lastEvent.station)]] >= 1

StartPairStep ==
    \/ city'["start_point"] # city["start_point"]
    \/ inflight'["departure_station"] # inflight["departure_station"]
    \/ pc \in {"L34", "L76", "L91"} /\ pc' # pc

EndPairStep ==
    \/ city'["end_point"] # city["end_point"]
    \/ inflight'["arrival_station"] # inflight["arrival_station"]
    \/ pc \in {"L35", "L80", "L95"} /\ pc' # pc

\* C10: an event on the start pair (a change of start_point, a load-time
\* statement for it, a request for departure_station issued or retired)
\* leaves end_point's value and arrival_station's options and enabled state
\* unchanged, and symmetrically for the end pair.
C10_PairsAreIndependent ==
    [][ /\ StartPairStep =>
              /\ city'["end_point"] = city["end_point"]
              /\ options'["arrival_station"] = options["arrival_station"]
              /\ disabled'["arrival_station"] = disabled["arrival_station"]
        /\ EndPairStep =>
              /\ city'["start_point"] = city["start_point"]
              /\ options'["departure_station"] = options["departure_station"]
              /\ disabled'["departure_station"] = disabled["departure_station"]
      ]_vars

\* C10 witness: a fetch of the start pair has just repopulated
\* departure_station while the end pair, changed earlier, is enabled, shows
\* its rendered options and waits for its own fetches.
C10_StartCompletionBesideEndReached ==
    /\ lastEvent = Event("done", "departure_station", 0)
    /\ options["departure_station"] \notin RenderedOptions
    /\ city["end_point"] = <<"7">>
    /\ ~disabled["arrival_station"]
    /\ options["arrival_station"] \in RenderedOptions
    /\ InFlight("arrival_station") = 2

\* C11: each station select's option list is the list it was rendered with or
\* exactly the entries of one response to a fetch of its pair, never a mix,
\* and it changes only in a successful completion callback of that pair.
C11_OptionsAreRenderedOrOneResponse ==
    [][\A s \in StationFields :
          /\ \/ options'[s] \in RenderedOptions
             \/ /\ lastDone'[s] # None
                /\ \E r \in ResultLists : options'[s] = OptionsOf(r)
          /\ options'[s] # options[s] =>
                 lastEvent' = Event("done", s, 0)
      ]_vars

\* C12: a load-time statement or a change event that leaves a station select
\* disabled leaves that select's options as they were.
C12_DisablingKeepsOptions ==
    [][\A s \in StationFields :
          ( /\ lastEvent'.kind \in {"load", "change"}
            /\ lastEvent'.station = s
            /\ disabled'[s] ) => options'[s] = options[s]
      ]_vars

\* C12 witness: a change to the empty value has just disabled a station
\* select that still lists the stations fetched for the previous city.
C12_StaleOptionsInDisabledReached ==
    /\ lastEvent.kind = "change"
    /\ LET s == lastEvent.station
       IN /\ city[CityOf(s)] = <<>>
          /\ disabled[s]
          /\ lastDone[s] # None
          /\ lastDone[s].results # <<>>
          /\ options[s] = OptionsOf(lastDone[s].results)

\* C13: a step in which a fetch completes, successfully or not, changes no
\* station select's enabled state; the enabled state changes only in a
\* load-time statement or a change event.
C13_CompletionKeepsEnabledState ==
    [][ /\ lastEvent'.kind \in {"done", "fail"} => disabled' = disabled
        /\ disabled' # disabled => lastEvent'.kind \in {"load", "change"}
      ]_vars

\* C13 witness: the fetch issued at load for a preselected city has just
\* filled its station select, which is as disabled as load left it.
C13_FilledButStillDisabledReached ==
    /\ lastEvent.kind = "done"
    /\ changes = 0
    /\ LET s == lastEvent.station
       IN /\ disabled[s]
          /\ city[CityOf(s)] = <<"5">>
          /\ lastDone[s] # None
          /\ lastDone[s].results # <<>>
          /\ options[s] \notin RenderedOptions

\* A change event has just set the city select of s to v, and the requests
\* it issued are the only ones in flight for s.
ChangedWithNothingInFlight(s, v) ==
    /\ lastEvent.kind = "change"
    /\ lastEvent.station = s
    /\ city[CityOf(s)] = v
    /\ InFlight(s) = lastEvent.sent

\* C14: when a city select is changed to a non-empty value v with nothing in
\* flight for its pair and every request is answered, then, unless the city
\* select is changed again, the station select's options eventually are the
\* server's station list for v: one option per entry, value = id, label =
\* text.
C14_OptionsBecomeServerList ==
    \A s \in StationFields : \A v \in CityVals \ {<<>>} :
        ChangedWithNothingInFlight(s, v) ~>
            \/ city[CityOf(s)] # v
            \/ InFlight(s) = 0 /\ options[s] = OptionsOf(ServerList(v))

====
